---- MODULE Spec2Model ----
(***************************************************************************)
(* Model of the realtime transcription session manager                     *)
(* (RealtimeTranscriptionManager, electron/services/QuestionClassifier.ts) *)
(* together with the `ws` transport it registers callbacks on, of the      *)
(* audio capture pipeline (SystemAudioCapture) that feeds it, and of the   *)
(* two pure routines, the PCM encoder and the keyword classifier.          *)
(*                                                                         *)
(* The program is single threaded: every public method and every callback  *)
(* runs to completion, and an async method runs from one await to the      *)
(* next, so each of these is one action.  The transport (library `ws`),    *)
(* the desktop capturer and the Web Audio graph are the environment: they  *)
(* decide when a socket opens, fails, closes or delivers a frame, when a   *)
(* promise settles and when a processing node delivers a buffer.           *)
(*                                                                         *)
(*   Spec         the session manager and its transport                    *)
(*   FairSpec     Spec with a transport that settles every handshake       *)
(*   CaptureSpec  the capture pipeline on its own                          *)
(*   ForwardSpec  the capture pipeline forwarding to a live session        *)
(*   PureSpec     the PCM encoder and the classifier applied to inputs     *)
(*   SpeechSpec   the browser speech recognition service (renderer)        *)
(***************************************************************************)
EXTENDS Integers, Sequences, FiniteSets, TLC

\* ------------------------------------------------------------------ bounds
MaxSockets  == 2    \* WebSocket objects created over one run
MaxSent     == 2    \* frames written, over all sockets, in one run
MaxCalls    == 2    \* startCapturing calls that reach their first await
MaxCaptured == 2    \* buffers the processing nodes deliver in one run
MaxLen      == 2    \* samples in a Float32Array given to the encoder
MaxSample   == 8    \* largest sample magnitude, in units of 1/Den
MaxWords    == 2    \* phrases in a text given to the classifier

\* --------------------------------------------------------------- constants
Undefined == "undefined"          \* JavaScript undefined / missing property
Providers == {"openai", "deepseek"}
Tokens    == {"tok123"}           \* what the provider may issue

VARIABLES
  \* RealtimeTranscriptionManager
  provider,       \* this.provider
  sessionToken,   \* this.sessionToken  (Undefined models null)
  wsConnection,   \* this.wsConnection  (0 models null, else index in sockets)
  isConnected,    \* this.isConnected
  sockets,        \* every WebSocket object created so far, in creation order
  emitted,        \* the events the last handler emitted, in order
  tokenUsed,      \* history: a socket was created since the token was stored
  last,           \* the handler that ran last and its outcome
  \* SystemAudioCapture
  mediaStream,    \* this.mediaStream    (0 models null, else index in streams)
  audioContext,   \* this.audioContext   (FALSE models null)
  sourceNode,     \* this.sourceNode     (0 models null, else index in streams)
  processorNode,  \* this.processorNode  (0 models null, else index in streams)
  isCapturing,    \* this.isCapturing
  streams,        \* every MediaStream acquired, with the nodes built on it
  calls,          \* every startCapturing call that reached an await
  captured,       \* history: the buffers delivered to onaudioprocess
  halted,         \* history: stopCapturing returned and no startCapturing
                  \* call was made since
  \* the pure routines
  input,          \* the argument a pure routine is applied to
  output,         \* what it returned
  \* SpeechRecognitionService
  recognition,    \* this.recognition: the browser's SpeechRecognition object
  options,        \* this.options
  isListening,    \* this.isListening
  isSpeaking      \* this.isSpeaking

managerVars == <<provider, sessionToken, wsConnection, isConnected, sockets,
                 emitted, tokenUsed, last>>

captureVars == <<mediaStream, audioContext, sourceNode, processorNode,
                 isCapturing, streams, calls, captured, halted>>

pureVars == <<input, output>>

speechVars == <<recognition, options, isListening, isSpeaking>>

vars == <<provider, sessionToken, wsConnection, isConnected, sockets,
          emitted, tokenUsed, last, mediaStream, audioContext, sourceNode,
          processorNode, isCapturing, streams, calls, captured, halted,
          input, output, recognition, options, isListening, isSpeaking>>

\* JavaScript truthiness of the string values the model uses
Truthy(v) == v # Undefined /\ v # ""

\* property access on a parsed object: a missing property reads undefined
Get(m, f) == IF f \in DOMAIN m THEN m[f] ELSE Undefined

SocketIds == 1..Len(sockets)

\* op: the method or callback; ret: what it returned ("none" for void);
\* threw: whether an exception left it; logged: what it wrote to the console
NoCall == [op |-> "init", ret |-> "none", threw |-> FALSE, logged |-> <<>>]

Call(op, ret, threw, logged) ==
  [op |-> op, ret |-> ret, threw |-> threw, logged |-> logged]

\* ------------------------------------------------------------ PCM encoder
\* A Float32Array element is a finite number, held as a whole number of
\* 1/Den (every float is a dyadic rational, and the products below are
\* exact in double precision), or NaN, or an infinity with its sign in n.
Den == 4

Finite(n) == [kind |-> "finite", n |-> n]

NaN == [kind |-> "NaN", n |-> 0]

Infinity == [kind |-> "Infinity", n |-> 1]

NegInfinity == [kind |-> "Infinity", n |-> -1]

Samples ==
  {Finite(n) : n \in (0 - MaxSample)..MaxSample} \cup {NaN, Infinity, NegInfinity}

\* a < b on numbers, false when either is NaN
Less(a, b) ==
  IF a.kind = "NaN" \/ b.kind = "NaN" THEN FALSE
  ELSE IF a.kind = "Infinity" THEN a.n < 0 /\ b # NegInfinity
  ELSE IF b.kind = "Infinity" THEN b.n > 0
  ELSE a.n < b.n

MathMin(a, b) ==
  IF a.kind = "NaN" \/ b.kind = "NaN" THEN NaN ELSE IF Less(b, a) THEN b ELSE a

MathMax(a, b) ==
  IF a.kind = "NaN" \/ b.kind = "NaN" THEN NaN ELSE IF Less(a, b) THEN b ELSE a

\* the scaling without the clamp
Clamp_None(x) == x

\* `Math.max(-1, Math.min(1, float32Array[i]))`
Clamp(x) == MathMax(Finite(0 - Den), MathMin(Finite(Den), x))

\* `s < 0 ? s * 0x8000 : s * 0x7FFF`, as a whole number of 1/Den
Scale(s) ==
  IF s.kind = "finite"
    THEN Finite(IF s.n < 0 THEN s.n * 32768 ELSE s.n * 32767)
    ELSE s

\* the store into an Int16Array element: ToInt16 of the number v.n / Den,
\* which truncates toward zero, wraps modulo 2^16 and maps NaN and the
\* infinities to 0
ToInt16(v) ==
  IF v.kind # "finite" THEN 0
  ELSE LET t == IF v.n < 0 THEN 0 - ((0 - v.n) \div Den) ELSE v.n \div Den
           m == t % 65536
       IN IF m >= 32768 THEN m - 65536 ELSE m

\* the Int16Array the loop fills
pcm16(float32Array) ==
  [i \in 1..Len(float32Array) |-> ToInt16(Scale(Clamp(float32Array[i])))]

\* `new Uint8Array(pcm16.buffer)`: the two bytes of each element, low byte
\* first on the little-endian hosts the application runs on
Uint8Array(int16s) ==
  [k \in 1..(2 * Len(int16s)) |->
     LET u == int16s[(k + 1) \div 2] % 65536
     IN IF k % 2 = 1 THEN u % 256 ELSE u \div 256]

convertToPCM16(float32Array) == Uint8Array(pcm16(float32Array))

\* every Float32Array of at most MaxLen samples
RECURSIVE Float32Arrays(_)
Float32Arrays(len) ==
  IF len = 0 THEN {<<>>}
  ELSE Float32Arrays(len - 1) \cup
       {Append(a, x) : a \in {b \in Float32Arrays(len - 1) : Len(b) = len - 1},
                       x \in Samples}

\* the buffers the processing node delivers to onaudioprocess
InputBuffers == {<<Finite(Den), Finite(0 - 1)>>, <<Finite(2)>>}

\* the Uint8Array values handed to sendAudioChunk
AudioData == {convertToPCM16(b) : b \in InputBuffers}

\* ------------------------------------------------------ question classifier
BEHAVIORAL == "Behavioral Question"

SYSTEM_DESIGN == "System Design"

OBJECT_ORIENTED_DESIGN == "Object-Oriented Design"

CODING == "Coding Problem"

UNKNOWN == "Unknown"

\* Object.entries(this.keywordMap): the entries in insertion order
keywordMap ==
  << [type |-> BEHAVIORAL, keywords |->
        << "tell me about a time", "describe a situation",
           "give me an example", "how did you handle", "what would you do if",
           "leadership", "challenge", "conflict", "mistake", "failure",
           "success", "team", "difficult", "proud", "disagreement" >>],
     [type |-> SYSTEM_DESIGN, keywords |->
        << "design a system", "system architecture", "scalability",
           "distributed", "microservices", "database design",
           "how would you design", "architect", "scale", "throughput",
           "latency", "availability", "reliability" >>],
     [type |-> OBJECT_ORIENTED_DESIGN, keywords |->
        << "object oriented", "class diagram", "inheritance", "polymorphism",
           "encapsulation", "abstraction", "design pattern", "singleton",
           "factory", "observer", "strategy" >>],
     [type |-> CODING, keywords |->
        << "implement", "function", "algorithm", "complexity",
           "time complexity", "space complexity", "data structure", "array",
           "linked list", "tree", "graph", "hash table",
           "dynamic programming", "recursion", "iteration" >>] >>

UpperCase == "ABCDEFGHIJKLMNOPQRSTUVWXYZ"

LowerCase == "abcdefghijklmnopqrstuvwxyz"

UpperChars == {SubSeq(UpperCase, k, k) : k \in 1..26}

LowerOf ==
  [c \in UpperChars |->
     LET k == CHOOSE j \in 1..26 : SubSeq(UpperCase, j, j) = c
     IN SubSeq(LowerCase, k, k)]

\* one character of String.prototype.toLowerCase
LowerChar(c) == IF c \in UpperChars THEN LowerOf[c] ELSE c

RECURSIVE toLowerCase(_)
toLowerCase(text) ==
  IF Len(text) = 0 THEN ""
  ELSE LowerChar(SubSeq(text, 1, 1)) \o toLowerCase(SubSeq(text, 2, Len(text)))

\* String.prototype.includes
includes(text, keyword) ==
  \E i \in 1..(Len(text) - Len(keyword) + 1) :
     SubSeq(text, i, i + Len(keyword) - 1) = keyword

\* `keywords.reduce((count, keyword) => count + (includes ? 1 : 0), 0)`
RECURSIVE matchCount(_, _)
matchCount(lowerText, keywords) ==
  IF keywords = <<>> THEN 0
  ELSE (IF includes(lowerText, Head(keywords)) THEN 1 ELSE 0)
       + matchCount(lowerText, Tail(keywords))

scores(lowerText) ==
  [k \in 1..Len(keywordMap) |->
     [type |-> keywordMap[k].type,
      score |-> matchCount(lowerText, keywordMap[k].keywords)]]

\* the comparison with `>=`, which lets a later entry win a tie
Better_OrEqual(current, best) == current.score >= best.score

\* `current.score > best.score`
Better(current, best) == current.score > best.score

\* `scores.reduce((best, current) => ... ? current : best, ...)`
RECURSIVE bestMatch(_, _)
bestMatch(scored, best) ==
  IF scored = <<>> THEN best
  ELSE bestMatch(Tail(scored),
         IF Better(Head(scored), best) THEN Head(scored) ELSE best)

quickClassify(text) ==
  LET best == bestMatch(scores(toLowerCase(text)), [type |-> UNKNOWN, score |-> 0])
  IN IF best.score > 0 THEN best.type ELSE UNKNOWN

\* the phrases the texts are made of: keywords of every category, in mixed
\* case, one phrase holding two keywords of one category, one holding a
\* keyword inside a longer word, and one holding none
Phrases ==
  { "Tell me about a time", "conflict", "System Architecture", "scale",
    "Singleton", "hash table", "street", "hello" }

\* every text of at most n phrases, separated by spaces
RECURSIVE Texts(_)
Texts(n) ==
  IF n = 0 THEN {""}
  ELSE Texts(n - 1) \cup
       {IF t = "" THEN w ELSE t \o " " \o w : t \in Texts(n - 1), w \in Phrases}

\* ---------------------------------------------------- session negotiation
\* The body of the HTTP response, `await response.json()`; threw models a
\* rejected fetch or an unparseable body.  Each token field takes every
\* value (absent, undefined, empty, a token) with the other field absent,
\* and one body carries both fields.
NoSecret == [present |-> FALSE, value |-> Undefined]
Secrets  == {NoSecret} \cup
            {[present |-> TRUE, value |-> v] : v \in {Undefined, ""} \cup Tokens}
Responses ==
  {[threw |-> TRUE, client_secret |-> NoSecret, session_token |-> Undefined]}
  \cup {[threw |-> FALSE, client_secret |-> c, session_token |-> Undefined] :
          c \in Secrets}
  \cup {[threw |-> FALSE, client_secret |-> NoSecret, session_token |-> t] :
          t \in {""} \cup Tokens}
  \cup {[threw |-> FALSE, client_secret |-> [present |-> TRUE, value |-> t],
          session_token |-> t] : t \in Tokens}

\* createOpenAISession reading the other provider's field
createOpenAISession_WrongField(resp) ==
  IF ~resp.threw /\ Truthy(resp.session_token)
    THEN [ret |-> "true", token |-> resp.session_token, logged |-> <<>>]
    ELSE [ret |-> "false", token |-> sessionToken,
          logged |-> <<"Failed to obtain OpenAI session token">>]

\* createOpenAISession from the response on: the result, the token held
\* afterwards and the diagnostic
createOpenAISession(resp) ==
  IF resp.threw
    THEN [ret |-> "false", token |-> sessionToken,
          logged |-> <<"Error creating OpenAI transcription session">>]
    ELSE IF resp.client_secret.present /\ Truthy(resp.client_secret.value)
      THEN [ret |-> "true", token |-> resp.client_secret.value, logged |-> <<>>]
      ELSE [ret |-> "false", token |-> sessionToken,
            logged |-> <<"Failed to obtain OpenAI session token">>]

\* createDeepSeekSession from the response on
createDeepSeekSession(resp) ==
  IF resp.threw
    THEN [ret |-> "false", token |-> sessionToken,
          logged |-> <<"Error creating DeepSeek transcription session">>]
    ELSE IF Truthy(resp.session_token)
      THEN [ret |-> "true", token |-> resp.session_token, logged |-> <<>>]
      ELSE [ret |-> "false", token |-> sessionToken,
            logged |-> <<"Failed to obtain DeepSeek session token">>]

\* createTranscriptionSession, from the call to the value its promise
\* resolves to.  Before the await it reads only the provider and the key,
\* which never change, so the call and the response are one step taken when
\* the response arrives.
createTranscriptionSession(resp) ==
  LET r == IF provider = "deepseek" THEN createDeepSeekSession(resp)
                                    ELSE createOpenAISession(resp)
  IN /\ last' = Call("createTranscriptionSession", r.ret, FALSE, r.logged)
     /\ sessionToken' = r.token
     /\ tokenUsed' = IF r.ret = "true" THEN FALSE ELSE tokenUsed
     /\ emitted' = <<>>
     /\ UNCHANGED <<provider, wsConnection, isConnected, sockets>>

\* ------------------------------------------------------------- the socket
NewSocket ==
  [readyState   |-> "CONNECTING",
   sent         |-> <<>>,       \* frames written to the connection
   listeners    |-> 0,          \* 'message' listeners registered on it
   errored      |-> FALSE,      \* its 'error' event has fired
   aborted      |-> FALSE]      \* close() was called before it opened

\* frames written so far, over all sockets
RECURSIVE TotalSent(_)
TotalSent(socks) ==
  IF socks = <<>> THEN 0 ELSE Len(Head(socks).sent) + TotalSent(Tail(socks))

Room == TotalSent(sockets) < MaxSent

\* WebSocket.send by ready state: CONNECTING throws; after the close
\* handshake started the frame is discarded, by an exception in older
\* releases of the library and silently in newer ones.
SendOutcomes(s) ==
  CASE sockets[s].readyState = "OPEN"       -> {"written"}
    [] sockets[s].readyState = "CONNECTING" -> {"throws"}
    [] OTHER                                -> {"throws", "dropped"}

\* a WebSocket.close that leaves the socket as it is
WsCloseCall_Noop(sk) == sk

\* WebSocket.close by ready state
WsCloseCall(sk) ==
  CASE sk.readyState = "CONNECTING" ->
         [sk EXCEPT !.readyState = "CLOSING", !.aborted = TRUE]
    [] sk.readyState = "OPEN" -> [sk EXCEPT !.readyState = "CLOSING"]
    [] OTHER -> sk

Emit(evs) == emitted' = evs

Event(name, args, s) == [name |-> name, args |-> args, sock |-> s]

\* ------------------------------------------------------ connectToWebSocket
\* connectToWebSocket without its token check
HasToken_Always == TRUE

\* `!this.sessionToken` negated
HasToken == Truthy(sessionToken)

connectToWebSocket ==
  /\ IF ~HasToken
       THEN /\ last' = Call("connectToWebSocket", "false", FALSE,
                            <<"No session token available">>)
            /\ UNCHANGED <<wsConnection, sockets, tokenUsed>>
       ELSE /\ Len(sockets) < MaxSockets
            /\ sockets' = Append(sockets, NewSocket)
            /\ wsConnection' = Len(sockets) + 1
            /\ tokenUsed' = TRUE
            /\ last' = Call("connectToWebSocket", "true", FALSE, <<>>)
  /\ emitted' = <<>>
  /\ UNCHANGED <<provider, sessionToken, isConnected>>

\* --------------------------------------------------- inbound translation
\* What JSON.parse(data.toString()) yields for the frames the transport may
\* deliver: threw for text that is not JSON, otherwise the parsed value.
\* JSON null parses, and reading `.type` of it throws a TypeError.
ParsedFrames ==
  [oaDelta |->
     [type |-> "conversation.item.input_audio_transcription.delta",
      delta |-> "what is", item_id |-> "a1", content_index |-> "0"],
   oaCompleted |->
     [type |-> "conversation.item.input_audio_transcription.completed",
      transcript |-> "what is a hash table", item_id |-> "a1",
      content_index |-> "0"],
   oaStarted |->
     [type |-> "input_audio_buffer.speech_started",
      audio_start_ms |-> "120", item_id |-> "a1"],
   oaStopped |->
     [type |-> "input_audio_buffer.speech_stopped",
      audio_end_ms |-> "980", item_id |-> "a1"],
   apiError |->
     [type |-> "error", error |-> [message |-> "bad request"]],
   dsPartial |->
     [type |-> "transcription.partial", text |-> "what is", id |-> "d7"],
   dsFinal |->
     [type |-> "transcription.final", text |-> "what is a hash table"],
   dsStarted |->
     [type |-> "speech.started", timestamp |-> "120", id |-> "d7"],
   dsStopped |->
     [type |-> "speech.stopped", timestamp |-> "980"],
   other |->
     [type |-> "session.created", item_id |-> "a1"],
   untyped |->
     [item_id |-> "a1"]]

WireData == DOMAIN ParsedFrames \cup {"jsonNull", "notJson"}

\* what the provider's endpoint may send: its own frames, the other
\* provider's completed frame as one more tag it does not use, and text
\* that does not parse to a message
WireFrom(p) ==
  (IF p = "deepseek"
     THEN {"dsPartial", "dsFinal", "dsStarted", "dsStopped", "oaCompleted"}
     ELSE {"oaDelta", "oaCompleted", "oaStarted", "oaStopped", "dsFinal"})
  \cup {"apiError", "other", "untyped", "jsonNull", "notJson"}

JSONparse(data) ==
  CASE data = "notJson"  -> [threw |-> TRUE,  isNull |-> FALSE, value |-> [x |-> Undefined]]
    [] data = "jsonNull" -> [threw |-> FALSE, isNull |-> TRUE,  value |-> [x |-> Undefined]]
    [] OTHER             -> [threw |-> FALSE, isNull |-> FALSE, value |-> ParsedFrames[data]]

Emitted(name, args) == [name |-> name, args |-> args]

Handled(evs, logged) == [emitted |-> evs, logged |-> logged]

\* handleOpenAIMessage: the events it emits and what it logs
handleOpenAIMessage(message) ==
  LET type == Get(message, "type")
  IN CASE type = "conversation.item.input_audio_transcription.delta" ->
            Handled(<<Emitted("transcription-delta",
                        <<[text         |-> Get(message, "delta"),
                           itemId       |-> Get(message, "item_id"),
                           contentIndex |-> Get(message, "content_index")]>>)>>,
                    <<>>)
       [] type = "conversation.item.input_audio_transcription.completed" ->
            Handled(<<Emitted("transcription-completed",
                        <<[text         |-> Get(message, "transcript"),
                           itemId       |-> Get(message, "item_id"),
                           contentIndex |-> Get(message, "content_index")]>>)>>,
                    <<>>)
       [] type = "input_audio_buffer.speech_started" ->
            Handled(<<Emitted("speech-started",
                        <<[audioStartMs |-> Get(message, "audio_start_ms"),
                           itemId       |-> Get(message, "item_id")]>>)>>,
                    <<>>)
       [] type = "input_audio_buffer.speech_stopped" ->
            Handled(<<Emitted("speech-stopped",
                        <<[audioEndMs |-> Get(message, "audio_end_ms"),
                           itemId     |-> Get(message, "item_id")]>>)>>,
                    <<>>)
       [] type = "error" ->
            Handled(<<Emitted("api-error", <<Get(message, "error")>>)>>,
                    <<"API error">>)
       [] OTHER -> Handled(<<>>, <<"OpenAI WebSocket message">>)

\* `message.id || '0'`
IdOrZero(message) ==
  IF Truthy(Get(message, "id")) THEN Get(message, "id") ELSE "0"

\* handleDeepSeekMessage: the events it emits and what it logs
handleDeepSeekMessage(message) ==
  LET type == Get(message, "type")
  IN CASE type = "transcription.partial" ->
            Handled(<<Emitted("transcription-delta",
                        <<[text         |-> Get(message, "text"),
                           itemId       |-> IdOrZero(message),
                           contentIndex |-> "0"]>>)>>,
                    <<>>)
       [] type = "transcription.final" ->
            Handled(<<Emitted("transcription-completed",
                        <<[text         |-> Get(message, "text"),
                           itemId       |-> IdOrZero(message),
                           contentIndex |-> "0"]>>)>>,
                    <<>>)
       [] type = "speech.started" ->
            Handled(<<Emitted("speech-started",
                        <<[audioStartMs |-> Get(message, "timestamp"),
                           itemId       |-> IdOrZero(message)]>>)>>,
                    <<>>)
       [] type = "speech.stopped" ->
            Handled(<<Emitted("speech-stopped",
                        <<[audioEndMs |-> Get(message, "timestamp"),
                           itemId     |-> IdOrZero(message)]>>)>>,
                    <<>>)
       [] type = "error" ->
            Handled(<<Emitted("api-error", <<Get(message, "error")>>)>>,
                    <<"DeepSeek API error">>)
       [] OTHER -> Handled(<<>>, <<"DeepSeek WebSocket message">>)

\* the 'message' listener without its try/catch
onMessage_NoCatch(data) ==
  LET parsed == JSONparse(data)
  IN IF parsed.threw \/ parsed.isNull
       THEN [emitted |-> <<>>, threw |-> TRUE, logged |-> <<>>]
       ELSE LET h == IF provider = "deepseek"
                       THEN handleDeepSeekMessage(parsed.value)
                       ELSE handleOpenAIMessage(parsed.value)
            IN [emitted |-> h.emitted, threw |-> FALSE, logged |-> h.logged]

\* The 'message' listener registered by setupWebSocketListeners: parse,
\* dispatch by provider, and catch whatever either step throws.
onMessage(data) ==
  LET parsed == JSONparse(data)
  IN IF parsed.threw \/ parsed.isNull
       THEN [emitted |-> <<>>, threw |-> FALSE,
             logged  |-> <<"Error processing WebSocket message">>]
       ELSE LET h == IF provider = "deepseek"
                       THEN handleDeepSeekMessage(parsed.value)
                       ELSE handleOpenAIMessage(parsed.value)
            IN [emitted |-> h.emitted, threw |-> FALSE, logged |-> h.logged]

RECURSIVE Repeat(_, _)
Repeat(seq, n) == IF n = 0 THEN <<>> ELSE seq \o Repeat(seq, n - 1)

Tag(evs, s) == [i \in 1..Len(evs) |-> Event(evs[i].name, evs[i].args, s)]

\* ------------------------------------------------------ transport callbacks
\* The auth frame built in the 'open' callback
AuthMessage == [type |-> "auth", token |-> sessionToken]

\* setupWebSocketListeners: one more 'message' listener on the held socket
setupWebSocketListeners(socks) ==
  IF wsConnection = 0
    THEN socks
    ELSE [socks EXCEPT ![wsConnection].listeners = @ + 1]

\* 'open' of socket s, the callback registered at connectToWebSocket: it
\* writes the auth frame to the socket the manager holds now, which is s
\* only if no later connectToWebSocket or close() replaced it
WsOpen(s) ==
  /\ sockets[s].readyState = "CONNECTING"
  /\ LET opened == [sockets EXCEPT ![s].readyState = "OPEN"]
     IN \E o \in (IF wsConnection = 0 THEN {"skipped"}
                  ELSE IF wsConnection = s THEN {"written"}
                  ELSE SendOutcomes(wsConnection)) :
          IF o = "throws"
            THEN /\ sockets' = opened
                 /\ emitted' = <<>>
                 /\ last' = Call("ws.open", "none", TRUE, <<>>)
                 /\ UNCHANGED isConnected
            ELSE /\ o = "written" => Room
                 /\ sockets' = setupWebSocketListeners(
                      IF o = "written"
                        THEN [opened EXCEPT ![wsConnection].sent =
                                              Append(@, AuthMessage)]
                        ELSE opened)
                 /\ isConnected' = TRUE
                 /\ Emit(<<Event("connected", <<>>, s)>>)
                 /\ last' = Call("ws.open", "none", FALSE, <<>>)
  /\ UNCHANGED <<provider, sessionToken, wsConnection, tokenUsed>>

\* The handshake of socket s fails, or was aborted by close(): the library
\* emits 'error' and 'close' back to back, so both callbacks run before any
\* other handler.
WsFail(s) ==
  /\ \/ sockets[s].readyState = "CONNECTING"
     \/ sockets[s].readyState = "CLOSING" /\ sockets[s].aborted
  /\ sockets' = [sockets EXCEPT ![s].readyState = "CLOSED", ![s].aborted = FALSE]
  /\ isConnected' = FALSE
  /\ Emit(<<Event("error", <<[message |-> "socket error"]>>, s),
            Event("disconnected", <<>>, s)>>)
  /\ last' = Call("ws.error+close", "none", FALSE, <<"WebSocket error">>)
  /\ UNCHANGED <<provider, sessionToken, wsConnection, tokenUsed>>

\* 'error' of an established socket s: emitted once; the socket is then
\* closing and its 'close' follows later
WsError(s) ==
  /\ sockets[s].readyState \in {"OPEN", "CLOSING"}
  /\ ~sockets[s].errored /\ ~sockets[s].aborted
  /\ sockets' = [sockets EXCEPT ![s].readyState = "CLOSING", ![s].errored = TRUE]
  /\ Emit(<<Event("error", <<[message |-> "socket error"]>>, s)>>)
  /\ last' = Call("ws.error", "none", FALSE, <<"WebSocket error">>)
  /\ UNCHANGED <<provider, sessionToken, wsConnection, isConnected, tokenUsed>>

\* 'close' of an established socket s.  A closed socket fires nothing more,
\* so its transport flag is cleared.
WsClose(s) ==
  /\ sockets[s].readyState \in {"OPEN", "CLOSING"}
  /\ ~sockets[s].aborted
  /\ sockets' = [sockets EXCEPT ![s].readyState = "CLOSED", ![s].errored = FALSE]
  /\ isConnected' = FALSE
  /\ Emit(<<Event("disconnected", <<>>, s)>>)
  /\ last' = Call("ws.close", "none", FALSE, <<>>)
  /\ UNCHANGED <<provider, sessionToken, wsConnection, tokenUsed>>

\* a frame arrives on socket s: every registered 'message' listener runs
WsMessage(s, data) ==
  /\ sockets[s].readyState \in {"OPEN", "CLOSING"}
  /\ ~sockets[s].errored /\ ~sockets[s].aborted
  /\ LET r == onMessage(data)
     IN /\ Emit(Tag(Repeat(r.emitted, sockets[s].listeners), s))
        /\ last' = Call("ws.message", "none",
                        r.threw /\ sockets[s].listeners > 0,
                        Repeat(r.logged, sockets[s].listeners))
  /\ UNCHANGED <<provider, sessionToken, wsConnection, isConnected, sockets,
                 tokenUsed>>

\* ----------------------------------------------------------- sendAudioChunk
\* sendAudioChunk testing only that a socket is held
CanSend_IgnoresFlag == wsConnection # 0

\* `!this.wsConnection || !this.isConnected` negated
CanSend == wsConnection # 0 /\ isConnected

\* the envelope written for one buffer; Date.now() is left abstract
AudioMessage(audioData) ==
  IF provider = "deepseek"
    THEN [type |-> "audio.chunk", audio |-> <<"base64", audioData>>,
          timestamp |-> "now"]
    ELSE [type |-> "input_audio_buffer.append",
          audio |-> <<"base64", audioData>>]

sendAudioChunk(audioData) ==
  /\ IF ~CanSend
       THEN /\ last' = Call("sendAudioChunk", "false", FALSE, <<>>)
            /\ UNCHANGED sockets
       ELSE \E o \in SendOutcomes(wsConnection) :
              /\ o = "written" => Room
              /\ sockets' = IF o = "written"
                              THEN [sockets EXCEPT ![wsConnection].sent =
                                      Append(@, AudioMessage(audioData))]
                              ELSE sockets
              /\ last' = IF o = "throws"
                            THEN Call("sendAudioChunk", "false", FALSE,
                                      <<"Error sending audio chunk">>)
                            ELSE Call("sendAudioChunk", "true", FALSE, <<>>)
  /\ emitted' = <<>>
  /\ UNCHANGED <<provider, sessionToken, wsConnection, isConnected, tokenUsed>>

\* -------------------------------------------------------------------- close
close ==
  /\ IF wsConnection # 0
       THEN /\ sockets' = [sockets EXCEPT ![wsConnection] = WsCloseCall(@)]
            /\ wsConnection' = 0
            /\ isConnected' = FALSE
       ELSE UNCHANGED <<sockets, wsConnection, isConnected>>
  /\ last' = Call("close", "none", FALSE, <<>>)
  /\ emitted' = <<>>
  /\ UNCHANGED <<provider, sessionToken, tokenUsed>>

isActive == isConnected

getProvider == provider

\* ================================================== the capture pipeline
\* A MediaStream the platform handed out, with the two nodes built on it:
\* index k names the stream, the MediaStreamAudioSourceNode created from it
\* and the ScriptProcessorNode that node feeds.
NewStream ==
  [stopped   |-> FALSE,     \* every track of the stream was stopped
   source    |-> "none",    \* none, created, connected, disconnected
   processor |-> "none"]    \* none, connected (to the destination), disconnected

StreamIds == 1..Len(streams)

CallIds == 1..Len(calls)

\* a startCapturing call: the await it is suspended at and its local `stream`
NewCall == [pc |-> "getSources", stream |-> 0]

Returned == [pc |-> "done", stream |-> 0]

SystemAudioCapture_isActive == isCapturing

\* initialize(): the AudioContext constructor either yields a context or
\* throws, which initialize catches; the field afterwards and the diagnostic
initialize(constructed) ==
  [audioContext |-> constructed,
   logged |-> IF constructed THEN <<"Initializing AudioContext">>
                             ELSE <<"Failed to initialize audio context">>]

\* startCapturing without its early return
AlreadyCapturing_Never == FALSE

\* `if (this.isCapturing) return true`
AlreadyCapturing == isCapturing

\* startCapturing up to its first await
startCapturing ==
  /\ IF AlreadyCapturing
       THEN /\ last' = Call("startCapturing", "true", FALSE, <<>>)
            /\ UNCHANGED calls
       ELSE /\ Len(calls) < MaxCalls
            /\ calls' = Append(calls, NewCall)
            /\ last' = Call("startCapturing", "pending", FALSE, <<>>)
  /\ halted' = FALSE
  /\ emitted' = <<>>
  /\ UNCHANGED <<mediaStream, audioContext, sourceNode, processorNode,
                 isCapturing, streams, captured>>
  /\ UNCHANGED <<provider, sessionToken, wsConnection, isConnected, sockets,
                 tokenUsed>>

\* startCapturing without its check for an empty source list
NoSources_Unchecked(sources) == FALSE

\* `sources.length === 0`
NoSources(sources) == sources = "none"

\* call c resumes after `await desktopCapturer.getSources(...)`, which was
\* rejected or resolved with no source or with some
afterGetSources(c, sources) ==
  /\ calls[c].pc = "getSources"
  /\ IF sources = "rejected"
       THEN /\ calls' = [calls EXCEPT ![c] = Returned]
            /\ last' = Call("startCapturing", "false", FALSE,
                            <<"Error capturing system audio">>)
       ELSE IF NoSources(sources)
         THEN /\ calls' = [calls EXCEPT ![c] = Returned]
              /\ last' = Call("startCapturing", "false", FALSE,
                              <<"No screen or window sources found">>)
         ELSE /\ calls' = [calls EXCEPT ![c].pc = "getUserMedia"]
              /\ last' = Call("startCapturing", "pending", FALSE, <<>>)
  /\ emitted' = <<>>
  /\ UNCHANGED <<mediaStream, audioContext, sourceNode, processorNode,
                 isCapturing, streams, captured, halted>>
  /\ UNCHANGED <<provider, sessionToken, wsConnection, isConnected, sockets,
                 tokenUsed>>

\* Lines 72 to 103 of startCapturing for call c and its stream k: the check
\* of the context, the two node constructors, either of which may throw
\* into the catch, the wiring and the flag.
buildGraph(c, k, context, acquired, build, logged) ==
  /\ calls' = [calls EXCEPT ![c] = Returned]
  /\ IF ~context
       THEN /\ build = "ok"
            /\ streams' = acquired
            /\ UNCHANGED <<sourceNode, processorNode, isCapturing>>
            /\ last' = Call("startCapturing", "false", FALSE,
                            logged \o <<"Failed to initialize AudioContext">>)
       ELSE CASE build = "sourceThrows" ->
                   /\ streams' = acquired
                   /\ UNCHANGED <<sourceNode, processorNode, isCapturing>>
                   /\ last' = Call("startCapturing", "false", FALSE,
                                   logged \o <<"Error capturing system audio">>)
              [] build = "processorThrows" ->
                   /\ streams' = [acquired EXCEPT ![k].source = "created"]
                   /\ sourceNode' = k
                   /\ UNCHANGED <<processorNode, isCapturing>>
                   /\ last' = Call("startCapturing", "false", FALSE,
                                   logged \o <<"Error capturing system audio">>)
              [] build = "ok" ->
                   /\ streams' = [acquired EXCEPT ![k].source = "connected",
                                                  ![k].processor = "connected"]
                   /\ sourceNode' = k
                   /\ processorNode' = k
                   /\ isCapturing' = TRUE
                   /\ last' = Call("startCapturing", "true", FALSE, logged)

Builds == {"ok", "sourceThrows", "processorThrows"}

\* call c resumes after `await navigator.mediaDevices.getUserMedia(...)`:
\* rejected, or resolved with a new stream, which is stored; then either
\* initialize() runs and the call awaits it, or the graph is built at once
afterGetUserMedia(c, resolved, constructed, build) ==
  /\ calls[c].pc = "getUserMedia"
  /\ IF ~resolved
       THEN /\ constructed /\ build = "ok"
            /\ calls' = [calls EXCEPT ![c] = Returned]
            /\ last' = Call("startCapturing", "false", FALSE,
                            <<"Error capturing system audio">>)
            /\ UNCHANGED <<mediaStream, audioContext, sourceNode,
                           processorNode, isCapturing, streams>>
       ELSE LET k == Len(streams) + 1
                acquired == Append(streams, NewStream)
            IN /\ mediaStream' = k
               /\ IF ~audioContext
                    THEN /\ build = "ok"
                         /\ audioContext' = initialize(constructed).audioContext
                         /\ calls' = [calls EXCEPT
                                        ![c] = [pc |-> "initialize", stream |-> k]]
                         /\ streams' = acquired
                         /\ last' = Call("startCapturing", "pending", FALSE,
                                         initialize(constructed).logged)
                         /\ UNCHANGED <<sourceNode, processorNode, isCapturing>>
                    ELSE /\ constructed
                         /\ UNCHANGED audioContext
                         /\ buildGraph(c, k, audioContext, acquired, build, <<>>)
  /\ emitted' = <<>>
  /\ UNCHANGED <<captured, halted>>
  /\ UNCHANGED <<provider, sessionToken, wsConnection, isConnected, sockets,
                 tokenUsed>>

\* call c resumes after `await this.initialize()`
afterInitialize(c, build) ==
  /\ calls[c].pc = "initialize"
  /\ buildGraph(c, calls[c].stream, audioContext, streams, build, <<>>)
  /\ emitted' = <<>>
  /\ UNCHANGED <<mediaStream, audioContext, captured, halted>>
  /\ UNCHANGED <<provider, sessionToken, wsConnection, isConnected, sockets,
                 tokenUsed>>

\* `this.mediaStream.getTracks().forEach(track => track.stop())`
StopTracks(strs) ==
  IF mediaStream # 0 THEN [strs EXCEPT ![mediaStream].stopped = TRUE] ELSE strs

\* `this.processorNode.disconnect()` under its guard
DisconnectProcessor(strs) ==
  IF processorNode # 0 /\ audioContext
    THEN [strs EXCEPT ![processorNode].processor = "disconnected"]
    ELSE strs

\* `this.sourceNode.disconnect()` under its guard
DisconnectSource(strs) ==
  IF sourceNode # 0 THEN [strs EXCEPT ![sourceNode].source = "disconnected"]
  ELSE strs

\* stopCapturing without its early return
StopGuard_Always == TRUE

\* `!this.isCapturing` negated
StopGuard == isCapturing

stopCapturing ==
  /\ IF ~StopGuard
       THEN UNCHANGED <<mediaStream, sourceNode, processorNode, isCapturing,
                        streams>>
       ELSE /\ streams' = DisconnectSource(DisconnectProcessor(StopTracks(streams)))
            /\ mediaStream' = 0
            /\ processorNode' = IF processorNode # 0 /\ audioContext
                                  THEN 0 ELSE processorNode
            /\ sourceNode' = 0
            /\ isCapturing' = FALSE
  /\ halted' = TRUE
  /\ last' = Call("stopCapturing", "none", FALSE, <<>>)
  /\ emitted' = <<>>
  /\ UNCHANGED <<audioContext, calls, captured>>
  /\ UNCHANGED <<provider, sessionToken, wsConnection, isConnected, sockets,
                 tokenUsed>>

\* the handler forwarding a fixed buffer instead of the one delivered
Forwarded_Fixed(inputBuffer) == convertToPCM16(<<Finite(2)>>)

\* `this.convertToPCM16(inputBuffer.getChannelData(0))`
Forwarded(inputBuffer) == convertToPCM16(inputBuffer)

\* onaudioprocess of the processing node built on stream k, which fires
\* while the node is connected to the destination: encode the buffer and
\* hand it to sendAudioChunk, whose result is ignored
onaudioprocess(k, inputBuffer) ==
  /\ streams[k].processor = "connected"
  /\ Len(captured) < MaxCaptured
  /\ captured' = Append(captured, inputBuffer)
  /\ sendAudioChunk(Forwarded(inputBuffer))
  /\ UNCHANGED <<mediaStream, audioContext, sourceNode, processorNode,
                 isCapturing, streams, calls, halted>>

\* ======================================================= the pure routines
NoInput == [routine |-> "none", arg |-> <<>>]

NoOutput == [returned |-> FALSE, value |-> <<>>]

PureInputs ==
  {[routine |-> "convertToPCM16", arg |-> a] : a \in Float32Arrays(MaxLen)}
  \cup {[routine |-> "quickClassify", arg |-> t] : t \in Texts(MaxWords)}

\* the encoder applied to the Float32Array drawn at the start
call_convertToPCM16 ==
  /\ input.routine = "convertToPCM16"
  /\ output' = [returned |-> TRUE, value |-> convertToPCM16(input.arg)]
  /\ UNCHANGED input

\* the classifier applied to the text drawn at the start
call_quickClassify ==
  /\ input.routine = "quickClassify"
  /\ output' = [returned |-> TRUE, value |-> quickClassify(input.arg)]
  /\ UNCHANGED input

\* ================================================ SpeechRecognitionService
\* An optional property of the options argument is left out (Absent), set
\* to undefined, or set to a value; booleans are written "true" / "false".
Absent == "absent"

Flags == {"true", "false"}

\* the options a caller passes to setup; the callbacks carry no state
SpeechRecognitionOptions ==
  [continuous     : Flags \cup {Absent, Undefined},
   interimResults : Flags \cup {Absent, Undefined},
   lang           : {Absent, "", "zh-CN"}]

\* JavaScript truthiness of an option value
ToBoolean(v) == v \notin {Undefined, "false", ""}

\* `a || b`
Or(a, b) == IF ToBoolean(a) THEN a ELSE b

\* `{ ...this.options, ...options }`: an own property of the argument wins,
\* also when its value is undefined
Spread(held, given) ==
  [f \in DOMAIN held |-> IF given[f] = Absent THEN held[f] ELSE given[f]]

\* the field initialiser of this.options
DefaultOptions == [continuous |-> "true", interimResults |-> "true",
                   lang |-> "en-US"]

\* A SpeechRecognition object as the browser creates it; supported is FALSE
\* for this.recognition = null.  handlers: setup has installed its event
\* handlers; engine: the recogniser's own state.
NewRecognition(api) ==
  [supported |-> api, continuous |-> "false", interimResults |-> "false",
   lang |-> "", handlers |-> FALSE, engine |-> "idle"]

\* the state after the constructor; api: the browser has the API
SpeechInit(api) ==
  /\ recognition = NewRecognition(api)
  /\ options = DefaultOptions
  /\ isListening = FALSE
  /\ isSpeaking = FALSE

setup(given) ==
  /\ IF ~recognition.supported
       THEN /\ last' = Call("setup", "none", FALSE,
                 <<"Speech recognition is not supported in this browser">>)
            /\ UNCHANGED <<recognition, options>>
       ELSE LET merged == Spread(options, given)
            IN /\ options' = merged
               /\ recognition' =
                    [recognition EXCEPT
                       !.continuous     = Or(merged.continuous, "true"),
                       !.interimResults = Or(merged.interimResults, "true"),
                       !.lang           = Or(merged.lang, "en-US"),
                       !.handlers       = TRUE]
               /\ last' = Call("setup", "none", FALSE, <<>>)
  /\ UNCHANGED <<isListening, isSpeaking>>

\* start(): recognition.start() throws InvalidStateError unless the
\* recogniser is idle; the service catches and logs it
start ==
  /\ IF ~recognition.supported
       THEN /\ last' = Call("start", "none", FALSE,
                 <<"Speech recognition is not supported in this browser">>)
            /\ UNCHANGED recognition
       ELSE IF isListening
         THEN /\ last' = Call("start", "none", FALSE, <<>>)
              /\ UNCHANGED recognition
         ELSE IF recognition.engine = "idle"
           THEN /\ recognition' = [recognition EXCEPT !.engine = "starting"]
                /\ last' = Call("start", "none", FALSE, <<>>)
           ELSE /\ last' = Call("start", "none", FALSE,
                     <<"Error starting speech recognition:">>)
                /\ UNCHANGED recognition
  /\ UNCHANGED <<options, isListening, isSpeaking>>

\* stop(): recognition.stop() is ignored by a recogniser that is not running
stop ==
  /\ IF recognition.supported /\ isListening
          /\ recognition.engine \in {"starting", "running"}
       THEN recognition' = [recognition EXCEPT !.engine = "stopping"]
       ELSE UNCHANGED recognition
  /\ last' = Call("stop", "none", FALSE, <<>>)
  /\ UNCHANGED <<options, isListening, isSpeaking>>

\* the recogniser fires 'start'
onstart ==
  /\ recognition.engine = "starting"
  /\ recognition' = [recognition EXCEPT !.engine = "running"]
  /\ isListening' = IF recognition.handlers THEN TRUE ELSE isListening
  /\ last' = Call("recognition.onstart", "none", FALSE, <<>>)
  /\ UNCHANGED <<options, isSpeaking>>

\* the recogniser fires 'end': it stopped, on request or by itself
onend ==
  /\ recognition.engine \in {"starting", "running", "stopping"}
  /\ recognition' = [recognition EXCEPT !.engine = "idle"]
  /\ isListening' = IF recognition.handlers THEN FALSE ELSE isListening
  /\ last' = Call("recognition.onend", "none", FALSE, <<>>)
  /\ UNCHANGED <<options, isSpeaking>>

\* the recogniser fires 'speechstart' (heard TRUE) or 'speechend'
onspeech(heard) ==
  /\ recognition.engine = "running"
  /\ isSpeaking' = IF recognition.handlers THEN heard ELSE isSpeaking
  /\ last' = Call(IF heard THEN "recognition.onspeechstart"
                           ELSE "recognition.onspeechend",
                  "none", FALSE, <<>>)
  /\ UNCHANGED <<recognition, options, isListening>>

getStatus == [isListening |-> isListening, isSpeaking |-> isSpeaking]

isSupported == recognition.supported

\* ========================================================= specifications
ManagerInit ==
  /\ provider \in Providers
  /\ sessionToken = Undefined
  /\ wsConnection = 0
  /\ isConnected = FALSE
  /\ sockets = <<>>
  /\ emitted = <<>>
  /\ tokenUsed = FALSE
  /\ last = NoCall

CaptureInit ==
  /\ mediaStream = 0
  /\ audioContext = FALSE
  /\ sourceNode = 0
  /\ processorNode = 0
  /\ isCapturing = FALSE
  /\ streams = <<>>
  /\ calls = <<>>
  /\ captured = <<>>
  /\ halted = FALSE

Init ==
  /\ ManagerInit
  /\ CaptureInit
  /\ input = NoInput
  /\ output = NoOutput
  /\ SpeechInit(TRUE)

\* a step of the session manager or its transport
Manager(A) ==
  A /\ UNCHANGED captureVars /\ UNCHANGED pureVars /\ UNCHANGED speechVars

\* a step of the capture pipeline
Capture(A) == A /\ UNCHANGED pureVars /\ UNCHANGED speechVars

Next ==
  \/ \E resp \in Responses : Manager(createTranscriptionSession(resp))
  \/ Manager(connectToWebSocket)
  \/ \E s \in SocketIds : Manager(WsOpen(s))
  \/ \E s \in SocketIds : Manager(WsFail(s))
  \/ \E s \in SocketIds : Manager(WsError(s))
  \/ \E s \in SocketIds : Manager(WsClose(s))
  \/ \E s \in SocketIds, data \in WireFrom(provider) : Manager(WsMessage(s, data))
  \/ \E audioData \in AudioData : Manager(sendAudioChunk(audioData))
  \/ Manager(close)

Spec == Init /\ [][Next]_vars

\* The transport settles every handshake: a socket that is connecting, or
\* whose handshake close() aborted, is eventually opened or failed.
Settle(s) == s \in SocketIds /\ (WsOpen(s) \/ WsFail(s))

FairSpec ==
  Init /\ [][Next]_vars
       /\ \A s \in 1..MaxSockets : WF_vars(Manager(Settle(s)))

\* The capture pipeline on its own: the manager it forwards to has no
\* session, so every buffer it is handed is refused.
CaptureNext ==
  \/ Capture(startCapturing)
  \/ \E c \in CallIds, sources \in {"some", "none", "rejected"} :
       Capture(afterGetSources(c, sources))
  \/ \E c \in CallIds, resolved \in BOOLEAN, constructed \in BOOLEAN,
        build \in Builds :
       Capture(afterGetUserMedia(c, resolved, constructed, build))
  \/ \E c \in CallIds, build \in Builds : Capture(afterInitialize(c, build))
  \/ Capture(stopCapturing)
  \/ \E k \in StreamIds, inputBuffer \in InputBuffers :
       Capture(onaudioprocess(k, inputBuffer))

CaptureSpec == Init /\ [][CaptureNext]_vars

\* The pipeline forwarding to a manager whose session is granted and
\* connected while audio is captured: capture starts without a failure, and
\* neither side is shut down, so the connection is down until a socket has
\* opened and the pipeline is the only caller of sendAudioChunk.
\* the bodies that grant a session whichever the provider: both fields set
Granted ==
  {resp \in Responses : /\ ~resp.threw
                        /\ Truthy(resp.client_secret.value)
                        /\ Truthy(resp.session_token)}

ForwardNext ==
  \/ \E resp \in Granted : Manager(createTranscriptionSession(resp))
  \/ Manager(connectToWebSocket)
  \/ \E s \in SocketIds : Manager(WsOpen(s))
  \/ Capture(startCapturing)
  \/ \E c \in CallIds : Capture(afterGetSources(c, "some"))
  \/ \E c \in CallIds : Capture(afterGetUserMedia(c, TRUE, TRUE, "ok"))
  \/ \E c \in CallIds : Capture(afterInitialize(c, "ok"))
  \/ \E k \in StreamIds, inputBuffer \in InputBuffers :
       Capture(onaudioprocess(k, inputBuffer))

ForwardSpec == Init /\ [][ForwardNext]_vars

PureInit ==
  /\ ManagerInit /\ provider = "openai"
  /\ CaptureInit
  /\ input \in PureInputs
  /\ output = NoOutput
  /\ SpeechInit(TRUE)

\* a call of a pure routine
Pure(A) ==
  A /\ UNCHANGED managerVars /\ UNCHANGED captureVars /\ UNCHANGED speechVars

PureNext ==
  \/ Pure(call_convertToPCM16)
  \/ Pure(call_quickClassify)

PureSpec == PureInit /\ [][PureNext]_vars

\* a step of the speech recognition service or of the browser's recogniser
Speech(A) ==
  /\ A
  /\ UNCHANGED <<provider, sessionToken, wsConnection, isConnected, sockets,
                 emitted, tokenUsed>>
  /\ UNCHANGED captureVars /\ UNCHANGED pureVars

\* the service in a browser with or without the SpeechRecognition API
SpeechSpecInit ==
  /\ ManagerInit /\ provider = "openai"
  /\ CaptureInit
  /\ input = NoInput
  /\ output = NoOutput
  /\ \E api \in BOOLEAN : SpeechInit(api)

SpeechNext ==
  \/ \E given \in SpeechRecognitionOptions : Speech(setup(given))
  \/ Speech(start)
  \/ Speech(stop)
  \/ Speech(onstart)
  \/ Speech(onend)
  \/ \E heard \in BOOLEAN : Speech(onspeech(heard))

SpeechSpec == SpeechSpecInit /\ [][SpeechNext]_vars

\* ===================================================================== claims
Sent(socks) == [s \in 1..Len(socks) |-> socks[s].sent]

Live(s) == sockets[s].readyState \in {"CONNECTING", "OPEN"}

Discarded(s) == sockets[s].readyState \in {"CLOSING", "CLOSED"}

IsAuth(frame) == frame.type = "auth" /\ frame.token \in Tokens

AuthCount(log) == Cardinality({i \in 1..Len(log) : log[i].type = "auth"})

\* C1: sendAudioChunk called while isActive() is false returns false and
\* writes no frame to any socket, whatever the buffer is and whatever the
\* state of the socket the manager holds.
C1_SendWhileInactive ==
  [][\A audioData \in AudioData :
       (~isActive /\ sendAudioChunk(audioData))
         => /\ last'.ret = "false"
            /\ Sent(sockets') = Sent(sockets)]_vars

\* C1 witness: the call returned false while the held socket is open and
\* only the flag says the manager is not connected.
C1_Witness ==
  /\ last.op = "sendAudioChunk" /\ last.ret = "false"
  /\ ~isActive
  /\ wsConnection # 0 /\ sockets[wsConnection].readyState = "OPEN"

\* C2: at most one socket the manager created is connecting or open.
C2_AtMostOneLive ==
  Cardinality({s \in SocketIds : Live(s)}) <= 1

\* C3: connectToWebSocket with no token held returns false, creates no
\* socket, leaves isActive() false and emits nothing; and as long as no
\* token was ever stored there is no socket that could emit `connected`.
C3_ConnectWithoutToken ==
  [][/\ (~Truthy(sessionToken) /\ connectToWebSocket)
          => /\ last'.ret = "false"
             /\ sockets' = sockets /\ wsConnection' = wsConnection
             /\ ~isActive'
             /\ emitted' = <<>>
     /\ ~Truthy(sessionToken') => sockets' = <<>> /\ ~isActive']_vars

\* C3 witness: connectToWebSocket has just refused, no token being held.
C3_Witness ==
  /\ last.op = "connectToWebSocket" /\ last.ret = "false"
  /\ sessionToken = Undefined
  /\ sockets = <<>>

\* C4: once a socket has been discarded (close() or a transport close), a
\* connectToWebSocket that creates a socket does so only with a token stored
\* after the previous socket was created, so that no token opens two
\* connections.
C4_ReconnectNeedsNewToken ==
  [][(connectToWebSocket /\ Len(sockets') > Len(sockets)
        /\ \E o \in SocketIds : Discarded(o) /\ AuthCount(sockets[o].sent) > 0)
       => ~tokenUsed]_vars

\* A socket that is closing with no error of its own, or whose handshake
\* was aborted, was closed by the manager's close().
ClosedByClose(s) ==
  /\ s \in SocketIds
  /\ sockets[s].readyState = "CLOSING"
  /\ sockets[s].aborted \/ ~sockets[s].errored

\* C5: after close() returned, no callback of the socket it closed makes
\* the manager emit an event.
C5_SilentAfterClose ==
  [][\A i \in 1..Len(emitted') : ~ClosedByClose(emitted'[i].sock)]_vars

\* C6: on every socket the first frame written is the auth frame, it is
\* written once, and the socket whose opening emits `connected` has
\* received it by then.
C6_AuthFirstAndOnce ==
  /\ \A s \in SocketIds :
       /\ sockets[s].sent # <<>> => IsAuth(sockets[s].sent[1])
       /\ AuthCount(sockets[s].sent) <= 1
  /\ \A i \in 1..Len(emitted) :
       emitted[i].name = "connected"
         => /\ sockets[emitted[i].sock].sent # <<>>
            /\ IsAuth(sockets[emitted[i].sock].sent[1])

Names(evs) == {evs[i].name : i \in 1..Len(evs)}

\* C7: the error callback has emitted `error`, the close callback has
\* emitted `disconnected`, and after either isActive() is false and
\* sendAudioChunk refuses.
C7_ClosedAfterFailure ==
  /\ last.op \in {"ws.error", "ws.error+close"}
       => "error" \in Names(emitted) /\ ~isActive /\ ~CanSend
  /\ last.op \in {"ws.close", "ws.error+close"}
       => "disconnected" \in Names(emitted) /\ ~isActive /\ ~CanSend

\* the field of the response the provider's token is expected in
TokenField(resp) ==
  IF resp.threw THEN Undefined
  ELSE IF provider = "deepseek" THEN resp.session_token
  ELSE IF resp.client_secret.present THEN resp.client_secret.value
  ELSE Undefined

\* C8: a createTranscriptionSession step throws nothing and leaves the held
\* socket, the sockets and isActive() as before; taken with a response that
\* carries the provider's token field it returns true and holds exactly that
\* value, taken with any other response it returns false and keeps the token
\* it held.
C8_SessionTokenStored ==
  [][last'.op = "createTranscriptionSession" =>
       /\ ~last'.threw
       /\ wsConnection' = wsConnection
       /\ isActive' = isActive
       /\ sockets' = sockets
       /\ \A resp \in Responses :
            createTranscriptionSession(resp)
              => IF TokenField(resp) \in Tokens
                   THEN last'.ret = "true" /\ sessionToken' = TokenField(resp)
                   ELSE last'.ret = "false" /\ sessionToken' = sessionToken]_vars

\* C8 witness: a negotiation succeeded while a connection was open, the
\* token is held and the connection is still open.
C8_Witness ==
  /\ last.op = "createTranscriptionSession" /\ last.ret = "true"
  /\ sessionToken \in Tokens
  /\ isActive /\ wsConnection # 0 /\ sockets[wsConnection].readyState = "OPEN"

NotParseable == {data \in WireData : JSONparse(data).threw}

\* C9: a payload that is not JSON, delivered while the manager is connected,
\* throws nothing past the listener, emits nothing, and leaves isActive(),
\* the held socket and every socket (its state and its listeners) as they
\* were.
C9_MalformedPayloadIgnored ==
  [][\A s \in SocketIds : \A data \in NotParseable :
       (isActive /\ WsMessage(s, data))
         => /\ ~last'.threw
            /\ emitted' = <<>>
            /\ isActive'
            /\ wsConnection' = wsConnection
            /\ sockets' = sockets]_vars

\* C9 witness: the listener of the open, held socket has just caught a
\* parse failure.
C9_Witness ==
  /\ last.op = "ws.message"
  /\ last.logged = <<"Error processing WebSocket message">>
  /\ isActive /\ wsConnection # 0
  /\ sockets[wsConnection].readyState = "OPEN"
  /\ sockets[wsConnection].listeners = 1

\* The normalized event a frame stands for, by provider: none when the tag
\* is not one of the provider's five.
Normalized(p, data) ==
  IF p = "deepseek"
    THEN CASE data = "dsPartial" ->
                <<Emitted("transcription-delta",
                    <<[text |-> "what is", itemId |-> "d7",
                       contentIndex |-> "0"]>>)>>
           [] data = "dsFinal" ->
                <<Emitted("transcription-completed",
                    <<[text |-> "what is a hash table", itemId |-> "0",
                       contentIndex |-> "0"]>>)>>
           [] data = "dsStarted" ->
                <<Emitted("speech-started",
                    <<[audioStartMs |-> "120", itemId |-> "d7"]>>)>>
           [] data = "dsStopped" ->
                <<Emitted("speech-stopped",
                    <<[audioEndMs |-> "980", itemId |-> "0"]>>)>>
           [] data = "apiError" ->
                <<Emitted("api-error", <<[message |-> "bad request"]>>)>>
           [] OTHER -> <<>>
    ELSE CASE data = "oaDelta" ->
                <<Emitted("transcription-delta",
                    <<[text |-> "what is", itemId |-> "a1",
                       contentIndex |-> "0"]>>)>>
           [] data = "oaCompleted" ->
                <<Emitted("transcription-completed",
                    <<[text |-> "what is a hash table", itemId |-> "a1",
                       contentIndex |-> "0"]>>)>>
           [] data = "oaStarted" ->
                <<Emitted("speech-started",
                    <<[audioStartMs |-> "120", itemId |-> "a1"]>>)>>
           [] data = "oaStopped" ->
                <<Emitted("speech-stopped",
                    <<[audioEndMs |-> "980", itemId |-> "a1"]>>)>>
           [] data = "apiError" ->
                <<Emitted("api-error", <<[message |-> "bad request"]>>)>>
           [] OTHER -> <<>>

\* C10: a valid frame reaching the manager's listener on socket s makes it
\* emit exactly the one normalized event of its tag, or nothing when the tag
\* is not the provider's, and changes no state.
C10_OneEventPerFrame ==
  [][\A s \in SocketIds : \A data \in DOMAIN ParsedFrames :
       (sockets[s].listeners > 0 /\ WsMessage(s, data))
         => /\ emitted' = Tag(Normalized(provider, data), s)
            /\ UNCHANGED <<sessionToken, wsConnection, isConnected, sockets>>]_vars

\* the audio frames among the frames written to a socket
AudioFrames(log) == SelectSeq(log, LAMBDA f : f.type # "auth")

\* the frame in which a captured buffer goes out
Envelope(inputBuffer) == AudioMessage(convertToPCM16(inputBuffer))

\* a is b with some of its elements left out
RECURSIVE IsSubsequence(_, _)
IsSubsequence(a, b) ==
  IF a = <<>> THEN TRUE
  ELSE IF b = <<>> THEN FALSE
  ELSE IF Head(a) = Head(b) THEN IsSubsequence(Tail(a), Tail(b))
  ELSE IsSubsequence(a, Tail(b))

C12_StopHaltsForwarding ==
  [][halted => captured' = captured]_vars

\* C16: a startCapturing call that finds no source, or whose source
\* enumeration or stream acquisition is rejected, returns false, throws
\* nothing, is over, and leaves isActive(), the held stream, context and
\* nodes and every stream and node as they were, so that no buffer is ever
\* forwarded because of it; made on its own it leaves isActive() false.
C16_CaptureFailsLocally ==
  [][\A c \in CallIds :
       (\/ afterGetSources(c, "none")
        \/ afterGetSources(c, "rejected")
        \/ \E constructed \in BOOLEAN, build \in Builds :
             afterGetUserMedia(c, FALSE, constructed, build))
         => /\ last'.ret = "false" /\ ~last'.threw
            /\ calls'[c] = Returned
            /\ SystemAudioCapture_isActive' = SystemAudioCapture_isActive
            /\ Len(calls) = 1 => ~SystemAudioCapture_isActive'
            /\ UNCHANGED <<mediaStream, audioContext, sourceNode,
                           processorNode, streams, captured>>]_vars

\* C16 witness: the only call made found no source and returned false.
C16_Witness ==
  /\ last = Call("startCapturing", "false", FALSE,
                 <<"No screen or window sources found">>)
  /\ Len(calls) = 1 /\ calls[1] = Returned
  /\ ~SystemAudioCapture_isActive /\ streams = <<>>

\* C17: stopCapturing called while capturing stops the tracks of the held
\* stream, disconnects the held processing and source nodes, and leaves no
\* stream and no node held and isActive() false; called while not capturing
\* it changes nothing; so a second call changes nothing after the first.
C17_StopIdempotent ==
  [][stopCapturing =>
       /\ ~last'.threw
       /\ IF SystemAudioCapture_isActive
            THEN /\ mediaStream # 0 => streams'[mediaStream].stopped
                 /\ processorNode # 0 /\ sourceNode # 0
                 /\ streams'[processorNode].processor = "disconnected"
                 /\ streams'[sourceNode].source = "disconnected"
                 /\ mediaStream' = 0 /\ sourceNode' = 0 /\ processorNode' = 0
                 /\ ~SystemAudioCapture_isActive'
            ELSE UNCHANGED <<mediaStream, audioContext, sourceNode,
                             processorNode, isCapturing, streams, calls>>]_vars

\* C17 witness: stopCapturing ran while capturing: the stream is stopped,
\* its nodes are disconnected and nothing is held.
C17_Witness ==
  /\ last.op = "stopCapturing"
  /\ ~SystemAudioCapture_isActive
  /\ mediaStream = 0 /\ sourceNode = 0 /\ processorNode = 0
  /\ \E k \in StreamIds :
       /\ streams[k].stopped
       /\ streams[k].processor = "disconnected"
       /\ streams[k].source = "disconnected"

\* C18: startCapturing called while isActive() is true returns true and
\* starts no call: no stream, no node, no field and no pending call changes.
C18_StartWhileCapturing ==
  [][(SystemAudioCapture_isActive /\ startCapturing)
       => /\ last'.ret = "true" /\ ~last'.threw
          /\ UNCHANGED <<mediaStream, audioContext, sourceNode, processorNode,
                         isCapturing, streams, calls>>]_vars

\* C18 witness: the second startCapturing returned true at once: the single
\* call on record is the one that built the graph.
C18_Witness ==
  /\ last = Call("startCapturing", "true", FALSE, <<>>)
  /\ SystemAudioCapture_isActive
  /\ Len(calls) = 1 /\ calls[1] = Returned
  /\ processorNode # 0 /\ streams[processorNode].processor = "connected"

\* C14: close() never throws.  With a connection held it closes that
\* socket (which is then neither connecting nor open), touches no other
\* socket, and leaves no connection held and isActive() false; with none
\* held it changes nothing.  Hence a second close() changes nothing after
\* the first.
C14_CloseIdempotent ==
  [][close =>
       /\ ~last'.threw
       /\ emitted' = <<>>
       /\ IF wsConnection # 0
            THEN /\ sockets'[wsConnection].readyState \notin {"CONNECTING", "OPEN"}
                 /\ sockets'[wsConnection].sent = sockets[wsConnection].sent
                 /\ \A s \in SocketIds \ {wsConnection} : sockets'[s] = sockets[s]
                 /\ Len(sockets') = Len(sockets)
                 /\ wsConnection' = 0
                 /\ ~isActive'
            ELSE UNCHANGED <<wsConnection, isConnected, sockets>>
       /\ UNCHANGED <<provider, sessionToken, tokenUsed>>]_vars

\* C14 witness: close() was called on an established connection, which is
\* now closing; nothing is held and the manager is inactive.
C14_Witness ==
  /\ last.op = "close"
  /\ wsConnection = 0 /\ ~isActive
  /\ \E s \in SocketIds : /\ sockets[s].readyState = "CLOSING"
                          /\ ~sockets[s].aborted /\ ~sockets[s].errored
                          /\ sockets[s].sent # <<>>

\* the frames of provider p that stand for an event
Recognised(p) == {data \in DOMAIN ParsedFrames : Normalized(p, data) # <<>>}

\* C15: events come out in the order the frames come in, none moved, merged
\* or repeated: each delivery of a recognised frame on the open connection
\* the manager holds emits, before the next frame is handled, the
\* translation of that frame and nothing else, whatever was delivered
\* before it.
C15_FrameOrder ==
  [][\A s \in SocketIds : \A data \in Recognised(provider) :
       (/\ s = wsConnection /\ isActive
        /\ sockets[s].readyState = "OPEN"
        /\ WsMessage(s, data))
         => emitted' = Tag(Normalized(provider, data), s)]_vars

\* socket s was created by a connectToWebSocket that returned true and its
\* handshake has not been settled by the transport yet
Pending(s) ==
  /\ s \in SocketIds
  /\ \/ sockets[s].readyState = "CONNECTING"
     \/ sockets[s].readyState = "CLOSING" /\ sockets[s].aborted

\* the manager emits connected, error or disconnected for socket s
Resolved(s) ==
  \E i \in DOMAIN emitted :
    /\ emitted[i].sock = s
    /\ emitted[i].name \in {"connected", "error", "disconnected"}

\* C13: with a transport that settles every handshake, every connection
\* attempt that returned true leads to a connected, error or disconnected
\* event for that attempt, also when close() came before the socket opened.
C13_AttemptResolves ==
  \A s \in 1..MaxSockets : Pending(s) ~> Resolved(s)

\* the 16-bit two's-complement value held in bytes 2i-1 (low) and 2i (high)
Int16At(bytes, i) ==
  LET u == bytes[2 * i - 1] + 256 * bytes[2 * i]
  IN IF u >= 32768 THEN u - 65536 ELSE u

\* n / Den rounded toward zero
TowardZero(n) == IF n < 0 THEN 0 - ((0 - n) \div Den) ELSE n \div Den

\* C19: convertToPCM16 yields two bytes per sample holding a value in
\* [-32768, 32767]: 32767 for 1.0 and for every sample above it, -32768 for
\* -1.0 and for every sample below it, and for a sample in between the
\* sample times 32768 (negative) or 32767 (otherwise) rounded toward zero,
\* with the sign of the sample and never wrapped; the value depends on the
\* sample alone.
C19_PCMEncoding ==
  (input.routine = "convertToPCM16" /\ output.returned) =>
    /\ Len(output.value) = 2 * Len(input.arg)
    /\ \A i \in 1..Len(input.arg) :
         LET x == input.arg[i]
             e == Int16At(output.value, i)
         IN /\ e \in (0 - 32768)..32767
            /\ x = Finite(Den) => e = 32767
            /\ x = Finite(0 - Den) => e = 0 - 32768
            /\ Less(Finite(Den), x) => e = 32767
            /\ Less(x, Finite(0 - Den)) => e = 0 - 32768
            /\ (x.kind = "finite" /\ x.n \in (0 - Den)..Den) =>
                 e = TowardZero(IF x.n < 0 THEN x.n * 32768 ELSE x.n * 32767)
            /\ \A j \in 1..Len(input.arg) :
                 input.arg[j] = x => Int16At(output.value, j) = e

\* C19 witness: a buffer holding 2.0 and minus infinity was encoded to the
\* bytes of 32767 and -32768, low byte first.
C19_Witness ==
  /\ input.routine = "convertToPCM16" /\ output.returned
  /\ input.arg = <<Finite(2 * Den), NegInfinity>>
  /\ output.value = <<255, 127, 0, 128>>

\* the categories in the order ties are resolved in
Priority == <<BEHAVIORAL, SYSTEM_DESIGN, OBJECT_ORIENTED_DESIGN, CODING>>

\* how many keyword phrases of a category occur in a lower-cased text
Matches(type, lowerText) ==
  LET entry == CHOOSE e \in {keywordMap[k] : k \in 1..Len(keywordMap)} :
                 e.type = type
  IN Cardinality({j \in 1..Len(entry.keywords) :
                    includes(lowerText, entry.keywords[j])})

\* C20: quickClassify returns Unknown when no keyword of any category
\* occurs in the text, and otherwise the category with the highest number
\* of matched keywords, the earliest in the order Behavioral, SystemDesign,
\* ObjectOrientedDesign, Coding among those that share it.
C20_HighestCountWins ==
  (input.routine = "quickClassify" /\ output.returned) =>
    LET lowerText == toLowerCase(input.arg)
        n == [k \in 1..4 |-> Matches(Priority[k], lowerText)]
        top == CHOOSE m \in {n[k] : k \in 1..4} : \A k \in 1..4 : n[k] <= m
        first == CHOOSE k \in 1..4 : n[k] = top /\ \A j \in 1..(k - 1) : n[j] < top
    IN /\ top = 0 => output.value = UNKNOWN
       /\ top > 0 => output.value = Priority[first]
       /\ \A k \in 1..4 :
            (n[k] > 0 /\ \A j \in 1..4 : j # k => n[j] = 0)
              => output.value = Priority[k]

\* C20 witness: a text with one keyword of SystemDesign followed by one of
\* Behavioral was classified Behavioral.
C20_Witness ==
  /\ input.routine = "quickClassify" /\ output.returned
  /\ input.arg = "scale conflict"
  /\ output.value = BEHAVIORAL

\* the manager holds a socket and that socket is open
HeldOpen == wsConnection # 0 /\ sockets[wsConnection].readyState = "OPEN"

\* C21: isActive() is true only while the held socket is open, and no
\* callback of a socket the manager does not hold turns isActive() false
\* while the held socket is open.
C21_ActiveMeansHeldOpen ==
  /\ [](isActive => HeldOpen)
  /\ [][\A s \in SocketIds :
          (s # wsConnection /\ HeldOpen /\ isActive /\ (WsClose(s) \/ WsFail(s)))
            => isActive']_vars

\* no startCapturing call is between two of its awaits
NoCallInProgress == \A c \in CallIds : calls[c].pc = "done"

\* the streams acquired through getUserMedia whose tracks were not stopped
LiveStreams == {k \in StreamIds : ~streams[k].stopped}

\* C22: when stopCapturing has just returned, the pipeline is not capturing
\* and no startCapturing is in progress, no acquired stream is still live:
\* whatever an earlier failed startCapturing left behind, the stop released.
C22_NoStreamLeftLive ==
  (/\ last.op = "stopCapturing"
   /\ ~SystemAudioCapture_isActive
   /\ NoCallInProgress) => LiveStreams = {}

\* the processing graphs whose ScriptProcessor is connected and delivering
ConnectedGraphs == {k \in StreamIds : streams[k].processor = "connected"}

\* C23: however startCapturing calls overlap, at most one processing graph
\* delivers buffers at a time, so that a buffer is forwarded once, and when
\* stopCapturing has just returned with no call in progress and the
\* pipeline inactive, no graph delivers any more.
C23_OneGraph ==
  /\ Cardinality(ConnectedGraphs) <= 1
  /\ (/\ last.op = "stopCapturing"
      /\ ~SystemAudioCapture_isActive
      /\ NoCallInProgress) => ConnectedGraphs = {}

\* C24: setup on a supported recogniser sets recognition.continuous and
\* recognition.interimResults to the value the caller supplied, false
\* included.
C24_SetupAppliesOptions ==
  [][\A given \in SpeechRecognitionOptions :
       (recognition.supported /\ setup(given))
         => /\ given.continuous \in Flags
                 => recognition'.continuous = given.continuous
            /\ given.interimResults \in Flags
                 => recognition'.interimResults = given.interimResults]_vars

====
